---- MODULE Spec2Model ----
(***************************************************************************)
(* Reconciliation of sync events (receipts, view-once-open syncs, message  *)
(* request responses) against locally stored messages and conversations.  *)
(* MessageReceipts: src/unnamed/part_000                                   *)
(* ViewOnceOpenSyncs, MessageRequests:                                     *)
(*   src/ts/messageModifiers/ViewOnceOpenSyncs.ts                          *)
(***************************************************************************)
EXTENDS Integers, Sequences, FiniteSets, TLC

(***************************************************************************)
(* Bounds of the model                                                     *)
(***************************************************************************)
\* number of receipt models that arrive in one behaviour
MaxReceipts == 2

\* the receipt slots (one MessageReceiptModel each)
ReceiptIds == 1..MaxReceipts

\* sent timestamps of messages and of receipts' messageSentAt
SentTimestamps == {1, 2}

\* receiptTimestamp values
ReceiptTimestamps == {5}

(***************************************************************************)
(* Types                                                                   *)
(***************************************************************************)
\* enum MessageReceiptType
MessageReceiptType == {"Delivery", "Read", "View"}

\* a value outside the enum, as an untyped caller can pass it
UnknownReceiptType == "Other"

\* SendStatus, as the lattice of the spec orders it
SendStatus == {"Failed", "Pending", "Sent", "Delivered", "Read", "Viewed"}

\* position of a status in the order Pending/Sent <= Delivered <= Read <= Viewed;
\* Failed is below every status a receipt produces
StatusRank(status) ==
  CASE status = "Failed" -> 0
    [] status = "Pending" -> 1
    [] status = "Sent" -> 1
    [] status = "Delivered" -> 2
    [] status = "Read" -> 3
    [] status = "Viewed" -> 4

\* our own ACI, window.textsecure.storage.user.getCheckedAci()
OurAci == "me"

\* conversation ids a receipt can come from
SourceConversations == {"c1", "c2"}

\* a conversation of window.ConversationController; "none" is an unset field
Conversation(id, e164, serviceId, groupId) ==
  [id |-> id, e164 |-> e164, serviceId |-> serviceId, groupId |-> groupId,
   shareMyPhoneNumber |-> FALSE]

NoConversation == Conversation("none", "none", "none", "none")

\* the conversations the controller starts with: a contact, ourselves, a group;
\* the contact c2 (service id s2) has no conversation
InitialConversations ==
  { Conversation("c1", "+1", "s1", "none"),
    Conversation("me", "+0", OurAci, "none"),
    Conversation("g1", "none", "none", "g1") }

\* a get that makes a group conversation for a key it does not find
conversationGet_OrCreate(all, key) ==
  LET hits == { c \in all : key # "none" /\ key \in {c.id, c.serviceId, c.e164, c.groupId} }
  IN IF key = "none" THEN NoConversation
     ELSE IF hits = {} THEN Conversation(key, "none", "none", key)
     ELSE CHOOSE c \in hits : TRUE

\* window.ConversationController.get(key): by id, service id, e164 or group id
conversationGet(all, key) ==
  LET hits == { c \in all : key # "none" /\ key \in {c.id, c.serviceId, c.e164, c.groupId} }
  IN IF hits = {} THEN NoConversation ELSE CHOOSE c \in hits : TRUE

\* what deleteSentProtoRecipient can report as successfulPhoneNumberShares:
\* the service id of a conversation and s9, which has no conversation
SuccessfulPhoneNumberShares == SUBSET {"s1", "s9"}

\* a processBatch that unsets the flag of every conversation
unsetShareMyPhoneNumber_OfAll(all, shares) ==
  { [c EXCEPT !.shareMyPhoneNumber = FALSE] : c \in all }

\* processBatch, lines 64-78: convo.unset('shareMyPhoneNumber') for each
\* reported service id that has a conversation
unsetShareMyPhoneNumber(all, shares) ==
  LET found == { conversationGet(all, serviceId) : serviceId \in shares }
                 \ {NoConversation}
  IN { IF c \in found THEN [c EXCEPT !.shareMyPhoneNumber = FALSE] ELSE c :
         c \in all }

\* the service id and conversation id the caller puts into a receipt from c
ServiceIdOfSource(c) ==
  CASE c = "c1" -> "s1"
    [] c = "c2" -> "s2"

\* window.ConversationController.getConversationId(identifier)
getConversationId(all, identifier) == conversationGet(all, identifier).id

\* window.Signal.Data.getAllGroupsInvolvingServiceId(serviceId), as group ids
getAllGroupsInvolvingServiceId(serviceId) ==
  IF serviceId = "s1" THEN {"g1"} ELSE {}

\* action of the reducer for a receipt kind
SendActionOf(type) ==
  CASE type = "Delivery" -> "GotDeliveryReceipt"
    [] type = "Read" -> "GotReadReceipt"
    [] type = "View" -> "GotViewedReceipt"

Max(a, b) == IF a >= b THEN a ELSE b

(***************************************************************************)
(* Send-state lattice (messages/MessageSendState, spec 4.1)                *)
(* A send state is [status, updatedAt]; updatedAt = 0 stands for undefined.*)
(***************************************************************************)
\* GotDeliveryReceipt: upgrade to Delivered below Delivered; at or above it keep
\* the status and bump updatedAt only when the receipt is not older.
\* GotReadReceipt: upgrade to Read unless already >= Read.
\* GotViewedReceipt: upgrade to Viewed.
\* An upgrade never moves updatedAt backward (spec 8, last example).
sendStateReducer(state, action) ==
  LET rank == StatusRank(state.status)
      at == Max(state.updatedAt, action.updatedAt)
  IN CASE action.type = "GotDeliveryReceipt" ->
            IF rank < StatusRank("Delivered")
              THEN [status |-> "Delivered", updatedAt |-> action.updatedAt]
              ELSE [status |-> state.status, updatedAt |-> at]
       [] action.type = "GotReadReceipt" ->
            IF rank < StatusRank("Read")
              THEN [status |-> "Read", updatedAt |-> at]
              ELSE state
       [] action.type = "GotViewedReceipt" ->
            IF rank < StatusRank("Viewed")
              THEN [status |-> "Viewed", updatedAt |-> at]
              ELSE state

(***************************************************************************)
(* Messages.  A message is a record                                        *)
(*   [id, type, conversationId, sourceServiceId, source, timestamp,        *)
(*    editMessageTimestamp, editHistory, sendStateByConversationId,        *)
(*    storyDistributionListId, deletedForEveryone, unidentifiedDeliveries] *)
(* source is the sender's e164, "none" when unset; timestamp is also the   *)
(* message's sent_at;                                                      *)
(* editMessageTimestamp = 0 stands for undefined; a send-state mapping is  *)
(* a function from conversation ids to send states, <<>> when empty or     *)
(* absent; storyDistributionListId is TRUE when the field is set.          *)
(***************************************************************************)
NoSendState == << >>

SendState(status, updatedAt) == [status |-> status, updatedAt |-> updatedAt]

\* a one- or two-recipient send-state mapping
OneRecipient(c, st) == [x \in {c} |-> st]

TwoRecipients(st) == [x \in SourceConversations |-> st]

Message(id, type, conv, source, ts, mapping) ==
  [id |-> id, type |-> type, conversationId |-> conv, sourceServiceId |-> source,
   source |-> "none", timestamp |-> ts, editMessageTimestamp |-> 0, editHistory |-> << >>,
   sendStateByConversationId |-> mapping, storyDistributionListId |-> FALSE,
   deletedForEveryone |-> FALSE, unidentifiedDeliveries |-> {}]

\* a test that takes every message for an outgoing one
isOutgoing_Always(message) == TRUE

isOutgoing(message) == message.type = "outgoing"

isStory(message) == message.type = "story"

\* messages/helpers getSourceServiceId: our ACI for an outgoing message, the
\* recorded source for the others
getSourceServiceId(message) ==
  IF isOutgoing(message) THEN OurAci ELSE message.sourceServiceId

\* util/getMessageSentTimestamp: the current edit's timestamp when edited
getMessageSentTimestamp(message) ==
  IF message.editMessageTimestamp # 0
    THEN message.editMessageTimestamp
    ELSE message.timestamp

\* getOwn(mapping, key) ?? fallback
getOwn(mapping, key, fallback) ==
  IF key \in DOMAIN mapping THEN mapping[key] ELSE fallback

(***************************************************************************)
(* Receipts.  A receipt is a record of MessageReceiptAttributesType.       *)
(***************************************************************************)
Receipt(t, rt, c, ty, enc) ==
  [messageSentAt |-> t, receiptTimestamp |-> rt,
   sourceServiceId |-> ServiceIdOfSource(c),
   sourceConversationId |-> c, sourceDevice |-> 1, type |-> ty,
   wasSentEncrypted |-> enc]

\* the receipts that arrive: every kind, timestamp and source; wasSentEncrypted
\* is read for a Delivery receipt only, so only there both values arrive
ReceiptAttributes ==
  { Receipt(t, rt, c, ty, TRUE) :
      t \in SentTimestamps, rt \in ReceiptTimestamps, c \in SourceConversations,
      ty \in MessageReceiptType }
  \cup { Receipt(t, rt, c, "Delivery", FALSE) :
      t \in SentTimestamps, rt \in ReceiptTimestamps, c \in SourceConversations }
  \cup { Receipt(t, 5, "c1", UnknownReceiptType, TRUE) : t \in SentTimestamps }

\* shouldDropReceipt reaches `default: throw missingCaseError(type)`
shouldDropReceiptThrows(receipt) == receipt.type \notin MessageReceiptType

\* a policy that decides a View receipt by the read-receipt setting alone
shouldDropReceipt_IgnoresStories(receipt, message, current) ==
  CASE receipt.type = "Delivery" -> FALSE
    [] receipt.type = "Read" -> ~current.readReceiptSetting
    [] receipt.type = "View" -> ~current.readReceiptSetting

\* current = [readReceiptSetting, storyViewReceiptsEnabled]
shouldDropReceipt(receipt, message, current) ==
  CASE receipt.type = "Delivery" -> FALSE
    [] receipt.type = "Read" -> ~current.readReceiptSetting
    [] receipt.type = "View" ->
         IF isStory(message)
           THEN ~current.storyViewReceiptsEnabled
           ELSE ~current.readReceiptSetting

\* a merge that writes the receipt's own status over the recorded one
getNewSendStateByConversationId_Overwrites(oldSendStateByConversationId, receipt) ==
  [c \in DOMAIN oldSendStateByConversationId \cup {receipt.sourceConversationId} |->
     IF c = receipt.sourceConversationId
       THEN [status |-> CASE receipt.type = "Delivery" -> "Delivered"
                          [] receipt.type = "Read" -> "Read"
                          [] receipt.type = "View" -> "Viewed",
             updatedAt |-> receipt.receiptTimestamp]
       ELSE oldSendStateByConversationId[c]]

\* a merge that moves the status one step up per receipt, whatever its kind
getNewSendStateByConversationId_Accumulates(oldSendStateByConversationId, receipt) ==
  LET old == getOwn(oldSendStateByConversationId, receipt.sourceConversationId,
                    SendState("Sent", 0))
  IN [c \in DOMAIN oldSendStateByConversationId \cup {receipt.sourceConversationId} |->
        IF c = receipt.sourceConversationId
          THEN [status |-> CASE StatusRank(old.status) < 2 -> "Delivered"
                             [] StatusRank(old.status) = 2 -> "Read"
                             [] OTHER -> "Viewed",
                updatedAt |-> receipt.receiptTimestamp]
          ELSE oldSendStateByConversationId[c]]

getNewSendStateByConversationId(oldSendStateByConversationId, receipt) ==
  LET sourceConversationId == receipt.sourceConversationId
      oldSendState == getOwn(oldSendStateByConversationId, sourceConversationId,
                             SendState("Sent", 0))
      newSendState == sendStateReducer(oldSendState,
                        [type |-> SendActionOf(receipt.type),
                         updatedAt |-> receipt.receiptTimestamp])
  IN [c \in DOMAIN oldSendStateByConversationId \cup {sourceConversationId} |->
        IF c = sourceConversationId
          THEN newSendState
          ELSE oldSendStateByConversationId[c]]

\* lines 242-258: the edit history with the receipt merged into the revisions
\* of its timestamp
newEditHistoryOf(receipt, message) ==
  [i \in DOMAIN message.editHistory |->
     LET edit == message.editHistory[i]
     IN IF receipt.messageSentAt # edit.timestamp
          THEN edit
          ELSE [edit EXCEPT !.sendStateByConversationId =
                  getNewSendStateByConversationId(@, receipt)]]

\* a top-level merge that does not compare timestamps
matchesTopLevel_Always(receipt, message) == TRUE

\* lines 264-268: the receipt is for the message or for its current edit
matchesTopLevel(receipt, message) ==
  \/ receipt.messageSentAt = message.timestamp
  \/ receipt.messageSentAt = message.editMessageTimestamp

\* lines 240-284: the message attributes after the merge of a kept receipt
mergedMessage(receipt, message) ==
  LET newEditHistory == newEditHistoryOf(receipt, message)
      withHistory ==
        IF newEditHistory # message.editHistory
          THEN [message EXCEPT !.editHistory = newEditHistory]
          ELSE message
      newSendStateByConversationId ==
        getNewSendStateByConversationId(message.sendStateByConversationId, receipt)
  IN IF /\ matchesTopLevel(receipt, message)
        /\ message.sendStateByConversationId # newSendStateByConversationId
       THEN [withHistory EXCEPT
               !.sendStateByConversationId = newSendStateByConversationId]
       ELSE withHistory

\* hasChanges set whenever a mapping was merged, equal or not
hasChanges_WheneverMerged(receipt, message) ==
  \/ \E i \in DOMAIN message.editHistory :
       receipt.messageSentAt = message.editHistory[i].timestamp
  \/ matchesTopLevel(receipt, message)

\* lines 240, 259-262, 278-283: hasChanges after the merge
hasChanges(receipt, message) ==
  LET newSendStateByConversationId ==
        getNewSendStateByConversationId(message.sendStateByConversationId, receipt)
  IN \/ newEditHistoryOf(receipt, message) # message.editHistory
     \/ /\ matchesTopLevel(receipt, message)
        /\ message.sendStateByConversationId # newSendStateByConversationId

wasDeliveredWithSealedSender(all, conversationId, message) ==
  \E identifier \in message.unidentifiedDeliveries :
    getConversationId(all, identifier) = conversationId

\* a condition that asks for a cleanup for every kind of receipt
wantsCleanup_AnyReceipt(all, receipt, message) == TRUE

\* lines 304-309: the receipt asks for a cleanup of the sent proto
wantsCleanup(all, receipt, message) ==
  \/ /\ receipt.type = "Delivery"
     /\ wasDeliveredWithSealedSender(all, receipt.sourceConversationId, message)
     /\ receipt.wasSentEncrypted
  \/ receipt.type = "Read"

\* lines 310-320: the items handed to deleteSentProtoBatcher.add, none when the
\* recipient or the device id is missing
cleanupItems(all, receipt, message) ==
  LET recipientServiceId ==
        conversationGet(all, receipt.sourceConversationId).serviceId
  IN IF /\ wantsCleanup(all, receipt, message)
        /\ recipientServiceId # "none"
        /\ receipt.sourceDevice # 0
       THEN << [timestamp |-> receipt.messageSentAt,
                recipientServiceId |-> recipientServiceId,
                deviceId |-> receipt.sourceDevice] >>
       ELSE << >>

(***************************************************************************)
(* Cleanup batcher (util/waitBatcher, spec 4.5)                            *)
(***************************************************************************)
\* createWaitBatcher({ wait: 250, ... })
BatcherWait == 250

\* createWaitBatcher({ maxSize: 30, ... })
BatcherMaxSize == 30

(***************************************************************************)
(* State                                                                   *)
(***************************************************************************)
VARIABLES
  db,             \* the stored messages, in storage order; the id is the index
  conversations,  \* the conversations of window.ConversationController
  settings,       \* read-receipt-setting and getStoryViewReceiptsEnabled()
  signalCI,       \* window.SignalCI is set
  receipts,       \* attributes of each receipt model, NoReceipt before it arrives
  buffer,         \* the MessageReceipts collection: ids of the receipts in it
  pc,             \* where the onReceipt call of each receipt stands
  snapshot,       \* the messages an onReceipt call read, while it awaits the groups
  readSettingAtAdd, \* history: read-receipt-setting when a Read receipt was buffered
  handedOut,      \* history: receipts forMessage returned during their storage reads
  batchQueue,     \* deleteSentProtoBatcher: items added and not yet batched
  inflight,       \* deleteSentProtoBatcher: batches handed to processBatch
  last,           \* the collaborator calls and results of the latest step
  syncs,          \* attributes of each view-once open sync, NoSync before it arrives
  syncBuffer,     \* the ViewOnceOpenSyncs collection: ids of its syncs, in order
  syncPc,         \* where the onSync call of each sync stands
  syncFound,      \* the message an onSync call found, while it awaits the marking
  viewedOnce,     \* ids of the messages marked view-once-viewed
  requests,       \* attributes of each message request response, NoRequest before
  requestBuffer,  \* the MessageRequests collection: ids of its responses, in order
  requestPc,      \* how the onResponse call of each response ended
  responses,      \* applyMessageRequestResponse calls made, oldest first
  now,            \* the clock, observed under BatcherSpec only
  timeout,        \* deleteSentProtoBatcher: when its armed timer fires, or NoTimeout
  addCount,       \* history: number of deleteSentProtoBatcher.add calls
  firstAddAt,     \* history: when the first add was made
  lastAddAt,      \* history: when the latest add was made
  batchCalls,     \* history: the processBatch calls, [at, armedAt, items]
  flushCall,      \* the flushAndWait call: [pc, awaits, items]
  history         \* history: the messages at the start and the merges made since,
                  \* oldest first, [receipt, kept]; NoHistory when not kept

\* Time is observed under BatcherSpec.  Under the other specifications the
\* clock stands still and the firing of the batcher's timer is BatcherTimeout,
\* enabled whenever items are queued.
timerVars == << now, timeout, addCount, firstAddAt, lastAddAt, batchCalls >>

receiptVars == << settings, signalCI, receipts, buffer, pc, snapshot, readSettingAtAdd,
                 handedOut, batchQueue, inflight, timerVars, flushCall, history >>

syncVars == << syncs, syncBuffer, syncPc, syncFound, viewedOnce >>

requestVars == << requests, requestBuffer, requestPc, responses >>

vars == << db, conversations, settings, signalCI, receipts, buffer, pc, snapshot, readSettingAtAdd,
           handedOut,
           batchQueue, inflight, last, syncVars, requestVars, timerVars, flushCall,
           history >>

\* no timer is armed
NoTimeout == 0

\* no flushAndWait call has been made
\* no record of the merges is kept
NoHistory == [initial |-> << >>, merges |-> << >>, recording |-> FALSE]

\* the record of merges after a step with the given effects; stale tells
\* whether a message had changed since the call read it from storage
recorded(h, effects, stale) ==
  IF h.recording /\ effects.op = "update" /\ effects.kept # {}
    THEN [h EXCEPT !.merges =
            Append(@, [receipt |-> effects.attributes, kept |-> effects.kept,
                       stale |-> stale])]
    ELSE h

NoFlush == [pc |-> "idle", awaits |-> 0, items |-> {}]

\* a flushAndWait that resolves as soon as any batch settles
flushAfterBatch_ResolvesAtOnce(f) ==
  IF f.pc # "waiting" THEN f ELSE [f EXCEPT !.awaits = 0, !.pc = "resolved"]

\* a batch settles: a flushAndWait call waiting for it resolves once the
\* batches handed to processBatch before its own and its own have settled
flushAfterBatch(f) ==
  IF f.pc # "waiting" THEN f
  ELSE IF f.awaits > 1 THEN [f EXCEPT !.awaits = @ - 1]
  ELSE [f EXCEPT !.awaits = 0, !.pc = "resolved"]

\* bound: view-once open syncs and message request responses a behaviour receives
MaxSyncs == 2

MaxRequests == 2

SyncIds == 1..MaxSyncs

RequestIds == 1..MaxRequests

NoSync == [timestamp |-> 0]

NoRequest == [type |-> "none"]

NoReceipt == [type |-> "none"]

NoEffects == [op |-> "none"]

\* an onReceipt call that has returned: after line 385 ("done"), at line 374
\* ("noTarget"), from the catch block ("failed"); "threw" is a call that threw
Returned == {"done", "noTarget", "failed", "threw"}

\* an onReceipt call that is suspended at an await
Suspended == {"getMessages", "getGroups", "awaitBatch"}

Range(seq) == { seq[i] : i \in DOMAIN seq }

(***************************************************************************)
(* Stored messages the model starts from                                   *)
(***************************************************************************)
Edit(ts, mapping) == [timestamp |-> ts, sendStateByConversationId |-> mapping]

\* an outgoing 1:1 message
DirectMessage(id, conv, ts, status) ==
  Message(id, "outgoing", conv, OurAci, ts, OneRecipient(conv, SendState(status, 0)))

\* an outgoing group message, sealed sender to s1
GroupMessage(id, ts) ==
  [Message(id, "outgoing", "g1", OurAci, ts, TwoRecipients(SendState("Sent", 0)))
     EXCEPT !.unidentifiedDeliveries = {"s1"}]

\* an outgoing message edited once: the original has timestamp 1, the edit 2
EditedMessage(id) ==
  [DirectMessage(id, "c1", 1, "Sent") EXCEPT
     !.editMessageTimestamp = 2,
     !.unidentifiedDeliveries = {"s1"},
     !.editHistory = << Edit(2, OneRecipient("c1", SendState("Sent", 0))),
                        Edit(1, OneRecipient("c1", SendState("Delivered", 5))) >>]

\* an outgoing message edited twice, at 2 and at 3: the revision of timestamp 2
\* is neither the original nor the current edit
TwiceEditedMessage(id) ==
  [DirectMessage(id, "c1", 1, "Sent") EXCEPT
     !.editMessageTimestamp = 3,
     !.editHistory = << Edit(3, OneRecipient("c1", SendState("Sent", 0))),
                        Edit(2, OneRecipient("c1", SendState("Sent", 0))),
                        Edit(1, OneRecipient("c1", SendState("Read", 5))) >>]

\* a copy of a story we sent to a distribution list
StoryCopy(id, mapping, deleted) ==
  [Message(id, "story", "me", OurAci, 1, mapping) EXCEPT
     !.storyDistributionListId = TRUE, !.deletedForEveryone = deleted]

\* a message we received
IncomingMessage(id, type, ts) == Message(id, type, "c1", "s1", ts, NoSendState)

Scenarios ==
  { << DirectMessage(1, "c1", 1, "Sent") >>,
    << GroupMessage(1, 1), DirectMessage(2, "c1", 1, "Pending") >>,
    << EditedMessage(1) >>,
    << TwiceEditedMessage(1) >>,
    << StoryCopy(1, TwoRecipients(SendState("Sent", 0)), FALSE),
       StoryCopy(2, OneRecipient("c1", SendState("Sent", 0)), FALSE),
       StoryCopy(3, OneRecipient("c1", SendState("Sent", 0)), TRUE) >>,
    << IncomingMessage(1, "incoming", 1), DirectMessage(2, "c2", 2, "Failed") >>,
    << IncomingMessage(1, "incoming", 1), GroupMessage(2, 1), GroupMessage(3, 1) >> }

\* messages that become available later and ask the buffer for early receipts
Arrivals ==
  { DirectMessage(9, "c1", 1, "Sent"),
    DirectMessage(9, "c2", 2, "Sent"),
    StoryCopy(9, OneRecipient("c1", SendState("Sent", 0)), FALSE),
    IncomingMessage(9, "story", 1) }

\* the three singletons after construction: empty collections, no call started
Singletons ==
  /\ receipts = [r \in ReceiptIds |-> NoReceipt]
  /\ buffer = {}
  /\ pc = [r \in ReceiptIds |-> "none"]
  /\ snapshot = [r \in ReceiptIds |-> << >>]
  /\ readSettingAtAdd = [r \in ReceiptIds |-> TRUE]
  /\ handedOut = {}
  /\ batchQueue = << >>
  /\ inflight = << >>
  /\ last = NoEffects
  /\ syncs = [s \in SyncIds |-> NoSync]
  /\ syncBuffer = << >>
  /\ syncPc = [s \in SyncIds |-> "none"]
  /\ syncFound = [s \in SyncIds |-> 0]
  /\ viewedOnce = {}
  /\ requests = [q \in RequestIds |-> NoRequest]
  /\ requestBuffer = << >>
  /\ requestPc = [q \in RequestIds |-> "none"]
  /\ responses = << >>
  /\ now = 0
  /\ timeout = NoTimeout
  /\ addCount = 0
  /\ firstAddAt = 0
  /\ lastAddAt = 0
  /\ batchCalls = << >>
  /\ flushCall = NoFlush

\* the state after construction, no record of the merges being kept
Constructed ==
  /\ Singletons
  /\ conversations = InitialConversations
  /\ signalCI = FALSE
  /\ history = NoHistory

Init ==
  /\ db \in Scenarios
  /\ settings \in [readReceiptSetting : BOOLEAN, storyViewReceiptsEnabled : BOOLEAN]
  /\ Constructed

(***************************************************************************)
(* Storage and matcher                                                     *)
(***************************************************************************)
\* window.Signal.Data.getMessagesBySentAt: the messages sent, or edited, at sentAt
getMessagesBySentAt(messages, sentAt) ==
  SelectSeq(messages,
    LAMBDA m : \/ m.timestamp = sentAt
               \/ m.editMessageTimestamp = sentAt
               \/ \E i \in DOMAIN m.editHistory : m.editHistory[i].timestamp = sentAt)

\* a find that takes a message of any type
findTarget_AnyType(messages, ids) ==
  LET hits == { i \in DOMAIN messages : messages[i].conversationId \in ids }
  IN IF hits = {} THEN 0
     ELSE messages[CHOOSE i \in hits : \A j \in hits : i <= j].id

\* Array.prototype.find over message snapshots: the id of the first message
\* whose conversation is in ids, 0 when there is none
findTarget(messages, ids) ==
  LET hits == { i \in DOMAIN messages :
                  /\ isOutgoing(messages[i]) \/ isStory(messages[i])
                  /\ messages[i].conversationId \in ids }
  IN IF hits = {} THEN 0
     ELSE messages[CHOOSE i \in hits : \A j \in hits : i <= j].id

\* getTargetMessage, lines 90-96: the message of the source conversation
directTarget(receipt, messages) ==
  findTarget(messages, {receipt.sourceConversationId})

\* getTargetMessage, lines 98-113: the message of a group of the source
groupTarget(receipt, messages) ==
  findTarget(messages,
    getAllGroupsInvolvingServiceId(receipt.sourceServiceId)
      \cup {receipt.sourceConversationId})

\* a filter that keeps the story copies deleted for everyone
storyTargets_KeepsDeleted(receipt, messages) ==
  { messages[i].id : i \in
      { j \in DOMAIN messages :
          /\ messages[j].storyDistributionListId
          /\ receipt.sourceConversationId
               \in DOMAIN messages[j].sendStateByConversationId } }

\* onReceipt, lines 357-363: the story copies sent to the source
storyTargets(receipt, messages) ==
  { messages[i].id : i \in
      { j \in DOMAIN messages :
          /\ messages[j].storyDistributionListId
          /\ ~messages[j].deletedForEveryone
          /\ receipt.sourceConversationId
               \in DOMAIN messages[j].sendStateByConversationId } }

(***************************************************************************)
(* deleteSentProtoBatcher                                                  *)
(***************************************************************************)
\* _kickBatchOff: the queued items become one batch for processBatch
kickBatchOff(b) ==
  IF b.queue = << >> THEN b
  ELSE [queue |-> << >>, inflight |-> Append(b.inflight, b.queue)]

\* an add that leaves every item to the timer, whatever the size of the queue
batcherAdd_NoSizeLimit(b, entry, flush) ==
  LET pushed == [b EXCEPT !.queue = Append(@, entry)]
  IN IF flush THEN kickBatchOff(pushed) ELSE pushed

\* add(item), followed by flushAndWait() under SignalCI: the batch is kicked
\* off at once when it is full or when flushed
batcherAdd(b, entry, flush) ==
  LET pushed == [b EXCEPT !.queue = Append(@, entry)]
  IN IF Len(pushed.queue) >= BatcherMaxSize \/ flush
       THEN kickBatchOff(pushed)
       ELSE pushed

RECURSIVE batcherAddAll(_, _, _)
batcherAddAll(b, entries, flush) ==
  IF entries = << >> THEN b
  ELSE batcherAddAll(batcherAdd(b, Head(entries), flush), Tail(entries), flush)

\* the batcher entries of receipt r that no batch has settled yet
pendingEntries(r, queue, batches) ==
  \/ \E i \in DOMAIN queue : queue[i].receipt = r
  \/ \E k \in DOMAIN batches : \E i \in DOMAIN batches[k] : batches[k][i].receipt = r

(***************************************************************************)
(* MessageReceipts                                                         *)
(***************************************************************************)
\* a catch block that rethrows the error to the caller of onReceipt
onReceiptCatch_Rethrows == "threw"

\* onReceipt, lines 386-388: the catch block logs and the call returns
onReceiptCatch == "failed"

\* an onReceipt that never removes the receipt
removeReceipt_Keeps(collection, r) == collection

\* onReceipt, line 385: this.remove(receipt)
removeReceipt(collection, r) == collection \ {r}

\* a forMessage that returns the early receipts and leaves them buffered
forMessageRemove_Keeps(collection, found) == collection

\* a forMessage that removes only the first of the receipts it found
forMessageRemove_OnlyFirst(collection, found) ==
  collection \ { r \in found : \A q \in found : r <= q }

\* forMessage, lines 167-173: the receipts for sentAt leave the collection
forMessageRemove(collection, found) == collection \ found

\* the call leaves through the catch block: the receipt is not removed
Catch(r) ==
  /\ pc' = [pc EXCEPT ![r] = onReceiptCatch]
  /\ last' = NoEffects
  /\ UNCHANGED << db, buffer, batchQueue, inflight >>

\* lines 366-375: no message for the receipt, the call returns
NoTarget(r) ==
  /\ pc' = [pc EXCEPT ![r] = "noTarget"]
  /\ last' = NoEffects
  /\ UNCHANGED << db, buffer, batchQueue, inflight >>

\* the ids of targets in storage order
RECURSIVE inOrder(_)
inOrder(ids) ==
  IF ids = {} THEN << >>
  ELSE LET least == CHOOSE i \in ids : \A j \in ids : i <= j
       IN << least >> \o inOrder(ids \ {least})

RECURSIVE cleanupEntries(_, _, _)
cleanupEntries(r, receipt, order) ==
  IF order = << >> THEN << >>
  ELSE LET items == cleanupItems(conversations, receipt, db[Head(order)])
       IN [i \in DOMAIN items |-> [receipt |-> r, item |-> items[i]]]
            \o cleanupEntries(r, receipt, Tail(order))

\* a register that makes a new model of the attributes read from storage,
\* whatever is registered under the id
register_FromData(id, data, registered) == data

\* window.MessageController.register(id, data): the model registered under id;
\* every stored message has one model, which holds its current attributes
register(id, data, registered) == registered[id]

\* the attributes of message id among the messages read from storage
readAttributes(messages, id) ==
  LET i == CHOOSE j \in DOMAIN messages : messages[j].id = id
  IN messages[i]

\* updateMessageSendState for each target (lines 353-354 and 377-382), up to
\* the await of the batcher; then line 385 when nothing is awaited.  The
\* targets are models registered from the messages read at line 343.
Resolve(r, targets, messages) ==
  LET receipt == receipts[r]
      model == [id \in targets |-> register(id, readAttributes(messages, id), db)]
  IN IF shouldDropReceiptThrows(receipt) THEN Catch(r)
     ELSE
       LET kept == { id \in targets : ~shouldDropReceipt(receipt, model[id], settings) }
           persisted == { id \in kept : hasChanges(receipt, model[id]) }
           entries == cleanupEntries(r, receipt, inOrder(kept))
           b == batcherAddAll([queue |-> batchQueue, inflight |-> inflight],
                              entries, signalCI)
       IN /\ db' = [id \in DOMAIN db |->
                      IF id \in kept THEN mergedMessage(receipt, model[id]) ELSE db[id]]
          /\ batchQueue' = b.queue
          /\ inflight' = b.inflight
          /\ last' = [op |-> "update", receipt |-> r, attributes |-> receipt,
                      repeats |-> /\ last.op = "update"
                                  /\ last.attributes = receipt
                                  /\ last.targets = targets,
                      readSettingAtAdd |-> readSettingAtAdd[r],
                      targets |-> targets,
                      kept |-> kept, persisted |-> persisted,
                      updateLeftPane |->
                        { conversationGet(conversations, db[id].conversationId).id :
                            id \in persisted } \ {"none"},
                      enqueued |-> [i \in DOMAIN entries |-> entries[i].item]]
          /\ IF entries = << >>
               THEN /\ buffer' = removeReceipt(buffer, r)
                    /\ pc' = [pc EXCEPT ![r] = "done"]
               ELSE /\ buffer' = buffer
                    /\ pc' = [pc EXCEPT ![r] = "awaitBatch"]

\* a receipt model that is out of the collection and whose onReceipt call has
\* returned is no longer referenced: its slot is cleared
Collect ==
  /\ receipts' = [r \in ReceiptIds |->
                    IF r \notin buffer' /\ pc'[r] \in Returned
                      THEN NoReceipt ELSE receipts[r]]
  /\ readSettingAtAdd' = [r \in ReceiptIds |->
                            IF r \notin buffer' /\ pc'[r] \in Returned
                              THEN TRUE ELSE readSettingAtAdd[r]]

\* a receipt arrives: the caller adds it to the collection and calls onReceipt,
\* which runs up to its first await (line 343)
OnReceipt(r, attributes) ==
  /\ UNCHANGED << syncVars, requestVars, timerVars, flushCall, handedOut, history >>
  /\ pc[r] = "none"
  /\ \A q \in ReceiptIds : q < r => pc[q] # "none"
  /\ receipts' = [receipts EXCEPT ![r] = attributes]
  /\ buffer' = buffer \cup {r}
  /\ pc' = [pc EXCEPT ![r] = "getMessages"]
  /\ readSettingAtAdd' =
       [readSettingAtAdd EXCEPT ![r] =
          IF attributes.type = "Read" THEN settings.readReceiptSetting ELSE TRUE]
  /\ last' = NoEffects
  /\ UNCHANGED << db, conversations, settings, signalCI, snapshot, batchQueue, inflight >>

\* getMessagesBySentAt settles (line 343); getTargetMessage runs up to its await
GetMessagesSettles(r, ok) ==
  /\ UNCHANGED << syncVars, requestVars, timerVars, flushCall >>
  /\ pc[r] = "getMessages"
  /\ LET receipt == receipts[r]
         messages == getMessagesBySentAt(db, receipt.messageSentAt)
         target == directTarget(receipt, messages)
     IN IF ~ok THEN Catch(r) /\ UNCHANGED snapshot
        ELSE IF messages = << >> THEN NoTarget(r) /\ UNCHANGED snapshot
        ELSE IF target # 0 THEN Resolve(r, {target}, messages) /\ UNCHANGED snapshot
        ELSE /\ pc' = [pc EXCEPT ![r] = "getGroups"]
             /\ snapshot' = [snapshot EXCEPT ![r] = messages]
             /\ last' = NoEffects
             /\ UNCHANGED << db, buffer, batchQueue, inflight >>
  /\ Collect
  /\ UNCHANGED << conversations, settings, signalCI >>
  /\ handedOut' = { q \in handedOut : pc'[q] \in {"getMessages", "getGroups"} }
  /\ history' = recorded(history, last', FALSE)

\* getAllGroupsInvolvingServiceId settles (line 98); the rest of getTargetMessage
\* and of onReceipt up to the next await
GetGroupsSettles(r, ok) ==
  /\ UNCHANGED << syncVars, requestVars, timerVars, flushCall >>
  /\ pc[r] = "getGroups"
  /\ snapshot' = [snapshot EXCEPT ![r] = << >>]
  /\ LET receipt == receipts[r]
         messages == snapshot[r]
         target == groupTarget(receipt, messages)
         stories == storyTargets(receipt, messages)
     IN IF ~ok THEN Catch(r)
        ELSE IF target # 0 THEN Resolve(r, {target}, messages)
        ELSE IF stories = {} THEN NoTarget(r)
        ELSE Resolve(r, stories, messages)
  /\ Collect
  /\ UNCHANGED << conversations, settings, signalCI >>
  /\ handedOut' = { q \in handedOut : pc'[q] \in {"getMessages", "getGroups"} }
  /\ history' = recorded(history, last',
                          \E i \in DOMAIN snapshot[r] :
                            snapshot[r][i] # db[snapshot[r][i].id])

\* the batcher's wait elapses: the queued items are handed to processBatch
BatcherTimeout ==
  /\ UNCHANGED << syncVars, requestVars, timerVars, flushCall, handedOut, history >>
  /\ batchQueue # << >>
  /\ LET b == kickBatchOff([queue |-> batchQueue, inflight |-> inflight])
     IN batchQueue' = b.queue /\ inflight' = b.inflight
  /\ last' = NoEffects
  /\ UNCHANGED << db, conversations, settings, signalCI, receipts, buffer, pc, snapshot,
                  readSettingAtAdd >>

\* processBatch of the oldest batch settles (lines 56-79), shares being the
\* successfulPhoneNumberShares that deleteSentProtoRecipient reports: the add
\* promises of its items resolve, or reject when deleteSentProtoRecipient
\* failed; an onReceipt call whose awaits are all resolved goes on to line 385
BatchSettles(ok, shares) ==
  /\ UNCHANGED << syncVars, requestVars, timerVars, handedOut, history >>
  /\ flushCall' = flushAfterBatch(flushCall)
  /\ inflight # << >>
  /\ LET batch == Head(inflight)
         rest == Tail(inflight)
         waiting == { r \in ReceiptIds :
                        /\ pc[r] = "awaitBatch"
                        /\ \E i \in DOMAIN batch : batch[i].receipt = r }
         resumed == IF ok
                      THEN { r \in waiting : ~pendingEntries(r, batchQueue, rest) }
                      ELSE waiting
     IN /\ inflight' = rest
        /\ pc' = [r \in ReceiptIds |->
                    IF r \notin resumed THEN pc[r]
                    ELSE IF ok THEN "done" ELSE onReceiptCatch]
        /\ buffer' = IF ok
                       THEN { q \in buffer :
                                q \notin resumed \/ q \in removeReceipt(buffer, q) }
                       ELSE buffer
        /\ last' = NoEffects
  /\ Collect
  /\ conversations' = IF ok THEN unsetShareMyPhoneNumber(conversations, shares)
                            ELSE conversations
  /\ UNCHANGED << db, settings, signalCI, snapshot, batchQueue >>

\* forMessage (lines 155-185) called for a message that became available;
\* a receipt of unknown kind makes shouldDropReceipt throw after the removal.
\* When a record is kept, a call that returns at lines 156-164 is noted with
\* the sent timestamp of its message.
ForMessage(message) ==
  LET eligible == /\ isOutgoing(message) \/ isStory(message)
                  /\ OurAci = getSourceServiceId(message)
      sentAt == getMessageSentTimestamp(message)
      found == IF eligible
                 THEN { r \in buffer : receipts[r].messageSentAt = sentAt }
                 ELSE {}
      threw == \E r \in found : shouldDropReceiptThrows(receipts[r])
      result == IF threw THEN {}
                ELSE { r \in found : ~shouldDropReceipt(receipts[r], message, settings) }
  IN /\ buffer # {}
     /\ UNCHANGED << syncVars, requestVars, timerVars, flushCall, history >>
     /\ handedOut' = handedOut \cup { r \in result : pc[r] \in {"getMessages", "getGroups"} }
     /\ buffer' = forMessageRemove(buffer, found)
     /\ last' = IF ~eligible /\ history.recording
                  THEN [op |-> "forMessage", found |-> {}, result |-> {},
                        threw |-> FALSE, returnedEarly |-> sentAt]
                ELSE IF found = {} THEN NoEffects
                ELSE [op |-> "forMessage", found |-> found, result |-> result,
                      threw |-> threw]
     /\ UNCHANGED << db, conversations, settings, signalCI, pc, snapshot, batchQueue, inflight >>
     /\ Collect

\* the user changes the read-receipt or the story-view-receipt setting
SetSettings(new) ==
  /\ UNCHANGED << syncVars, requestVars, timerVars, flushCall, handedOut, history >>
  /\ new # settings
  /\ settings' = new
  /\ last' = NoEffects
  /\ UNCHANGED << db, conversations, signalCI, receipts, buffer, pc, snapshot, readSettingAtAdd,
                  batchQueue, inflight >>

Next ==
  \/ \E r \in ReceiptIds, attributes \in ReceiptAttributes : OnReceipt(r, attributes)
  \/ \E r \in ReceiptIds, ok \in BOOLEAN : GetMessagesSettles(r, ok)
  \/ \E r \in ReceiptIds, ok \in BOOLEAN : GetGroupsSettles(r, ok)
  \/ BatcherTimeout
  \/ \E ok \in BOOLEAN, shares \in SuccessfulPhoneNumberShares : BatchSettles(ok, shares)
  \/ \E message \in Arrivals \cup Range(db) : ForMessage(message)
  \/ \E new \in [readReceiptSetting : BOOLEAN, storyViewReceiptsEnabled : BOOLEAN] :
       SetSettings(new)

Spec == Init /\ [][Next]_vars

(***************************************************************************)
(* ViewOnceOpenSyncs (src/ts/messageModifiers/ViewOnceOpenSyncs.ts)        *)
(* A sync is [source, sourceAci, timestamp]; source is optional, "none"    *)
(* when unset.                                                             *)
(***************************************************************************)
ViewOnceOpenSync(source, sourceAci, timestamp) ==
  [source |-> source, sourceAci |-> sourceAci, timestamp |-> timestamp]

SyncAttributes ==
  { ViewOnceOpenSync(source, sourceAci, timestamp) :
      source \in {"none", "+1"}, sourceAci \in {"s1", "s2"},
      timestamp \in SentTimestamps }

\* an incoming view-once message
ViewOnceMessage(id, source, sourceServiceId, ts) ==
  [Message(id, "incoming", "c1", sourceServiceId, ts, NoSendState)
     EXCEPT !.source = source]

SyncScenarios ==
  { << ViewOnceMessage(1, "+1", "s1", 1), ViewOnceMessage(2, "none", "s2", 1) >>,
    << ViewOnceMessage(1, "none", "none", 1), ViewOnceMessage(2, "+1", "none", 2) >>,
    << ViewOnceMessage(1, "none", "s2", 2) >>,
    << >> }

\* view-once messages that become available later
SyncArrivals ==
  { ViewOnceMessage(9, "+1", "s1", 1),
    ViewOnceMessage(9, "none", "s2", 1),
    ViewOnceMessage(9, "none", "none", 2) }

\* Backbone Collection.find: the first model of the collection among those
\* passing the test, 0 when there is none
find(collection, passing) ==
  LET hits == SelectSeq(collection, LAMBDA model : model \in passing)
  IN IF hits = << >> THEN 0 ELSE Head(hits)

\* Backbone Collection.remove(model)
remove(collection, model) == SelectSeq(collection, LAMBDA x : x # model)

\* a test that takes any message of the sync's timestamp
onSyncMatches_AnyMessage(sync, item) == TRUE

\* onSync, lines 65-75: the test of messages.find
onSyncMatches(sync, item) ==
  \/ /\ item.sourceServiceId # "none"
     /\ sync.sourceAci # "none"
     /\ item.sourceServiceId = sync.sourceAci
  \/ /\ item.source # "none"
     /\ sync.source # "none"
     /\ item.source = sync.source

\* forMessage, lines 32-37 and 44-49: the tests of the two this.find calls
matchesBySourceAci(item, message) ==
  /\ item.sourceAci = message.sourceServiceId
  /\ item.timestamp = message.timestamp

matchesBySource(item, message) ==
  /\ item.source = message.source
  /\ item.timestamp = message.timestamp

\* what the catch block of onSync leaves the call with: it logs and returns
onSyncCatch == "failed"

\* a sync model that is out of the collection and whose onSync call has
\* returned is no longer referenced: its slot is cleared
SyncCollect ==
  syncs' = [s \in SyncIds |->
              IF s \notin Range(syncBuffer') /\ syncPc'[s] \in Returned
                THEN NoSync ELSE syncs[s]]

\* a sync arrives: the caller adds it to the collection and calls onSync, which
\* runs up to its first await (line 61)
OnSync(s, attributes) ==
  /\ syncPc[s] = "none"
  /\ \A t \in SyncIds : t < s => syncPc[t] # "none"
  /\ syncs' = [syncs EXCEPT ![s] = attributes]
  /\ syncBuffer' = Append(syncBuffer, s)
  /\ syncPc' = [syncPc EXCEPT ![s] = "getMessages"]
  /\ last' = NoEffects
  /\ UNCHANGED << db, conversations, receiptVars, requestVars, syncFound, viewedOnce >>

\* getMessagesBySentAt settles (line 61); onSync runs up to the await of line 93
SyncGetMessagesSettles(s, ok) ==
  /\ syncPc[s] = "getMessages"
  /\ LET sync == syncs[s]
         messages == getMessagesBySentAt(db, sync.timestamp)
         hits == SelectSeq(messages, LAMBDA item : onSyncMatches(sync, item))
     IN IF ~ok
          THEN /\ syncPc' = [syncPc EXCEPT ![s] = onSyncCatch]
               /\ UNCHANGED syncFound
        ELSE IF hits = << >>
          THEN /\ syncPc' = [syncPc EXCEPT ![s] = "noTarget"]
               /\ UNCHANGED syncFound
        ELSE /\ syncPc' = [syncPc EXCEPT ![s] = "markViewed"]
             /\ syncFound' = [syncFound EXCEPT ![s] = Head(hits).id]
  /\ last' = NoEffects
  /\ UNCHANGED << db, conversations, receiptVars, requestVars, syncBuffer, viewedOnce >>
  /\ SyncCollect

\* markViewOnceMessageViewed settles (line 93); the sync is removed (line 95),
\* or the catch block logs the failure
MarkViewedSettles(s, ok) ==
  /\ syncPc[s] = "markViewed"
  /\ syncFound' = [syncFound EXCEPT ![s] = 0]
  /\ IF ok
       THEN /\ viewedOnce' = viewedOnce \cup {syncFound[s]}
            /\ syncBuffer' = remove(syncBuffer, s)
            /\ syncPc' = [syncPc EXCEPT ![s] = "done"]
            /\ last' = [op |-> "markViewOnceMessageViewed", sync |-> s,
                        message |-> syncFound[s], fromSync |-> TRUE]
       ELSE /\ syncPc' = [syncPc EXCEPT ![s] = onSyncCatch]
            /\ last' = NoEffects
            /\ UNCHANGED << viewedOnce, syncBuffer >>
  /\ SyncCollect
  /\ UNCHANGED << db, conversations, receiptVars, requestVars >>

\* ViewOnceOpenSyncs.forMessage (lines 31-57) called for a message that became
\* available
ViewOnceForMessage(message) ==
  LET syncBySourceAci ==
        find(syncBuffer, { s \in Range(syncBuffer) : matchesBySourceAci(syncs[s], message) })
      syncBySource ==
        find(syncBuffer, { s \in Range(syncBuffer) : matchesBySource(syncs[s], message) })
      found == IF syncBySourceAci # 0 THEN syncBySourceAci ELSE syncBySource
  IN /\ syncBuffer # << >>
     /\ syncBuffer' = IF found = 0 THEN syncBuffer ELSE remove(syncBuffer, found)
     /\ last' = IF found = 0 THEN NoEffects
                ELSE [op |-> "viewOnceForMessage", found |-> found,
                      attributes |-> syncs[found], message |-> message]
     /\ UNCHANGED << db, conversations, receiptVars, requestVars, syncPc, syncFound,
                     viewedOnce >>
     /\ SyncCollect

SyncInit ==
  /\ db \in SyncScenarios
  /\ settings = [readReceiptSetting |-> TRUE, storyViewReceiptsEnabled |-> TRUE]
  /\ Constructed

SyncNext ==
  \/ \E s \in SyncIds, attributes \in SyncAttributes : OnSync(s, attributes)
  \/ \E s \in SyncIds, ok \in BOOLEAN : SyncGetMessagesSettles(s, ok)
  \/ \E s \in SyncIds, ok \in BOOLEAN : MarkViewedSettles(s, ok)
  \/ \E message \in SyncArrivals \cup Range(db) : ViewOnceForMessage(message)

SyncSpec == SyncInit /\ [][SyncNext]_vars

(***************************************************************************)
(* MessageRequests (src/ts/messageModifiers/ViewOnceOpenSyncs.ts, from     *)
(* line 101).  A response is [threadE164, threadAci, groupV2Id, type].     *)
(***************************************************************************)
MessageRequestResponse(threadE164, threadAci, groupV2Id, type) ==
  [threadE164 |-> threadE164, threadAci |-> threadAci, groupV2Id |-> groupV2Id,
   type |-> type]

RequestAttributes ==
  { MessageRequestResponse(threadE164, threadAci, groupV2Id, type) :
      threadE164 \in {"none", "+1", "+3"}, threadAci \in {"none", "s1", "s3"},
      groupV2Id \in {"none", "g1", "g3"}, type \in {"ACCEPT", "DELETE"} }

\* conversations that become available later
ConversationArrivals ==
  { Conversation("c3", "+3", "s3", "none"), Conversation("g3", "none", "none", "g3") }

\* window.ConversationController.lookupOrCreate({e164, serviceId}): the
\* conversation of the phone number, else the one of the service id, else a new one
lookupOrCreate(all, e164, serviceId) ==
  LET byE164 == { c \in all : e164 # "none" /\ c.e164 = e164 }
      byServiceId == { c \in all : serviceId # "none" /\ c.serviceId = serviceId }
  IN IF byE164 # {} THEN CHOOSE c \in byE164 : TRUE
     ELSE IF byServiceId # {} THEN CHOOSE c \in byServiceId : TRUE
     ELSE Conversation("new:" \o (IF e164 # "none" THEN e164 ELSE serviceId),
                       e164, serviceId, "none")

\* what the catch block of onResponse leaves the call with: it logs and returns
onResponseCatch == "failed"

\* a response arrives: the caller adds it to the collection and calls
\* onResponse (lines 177-212), which has no await and runs to its end; ~ok is a
\* ConversationController call that throws
OnResponse(q, attributes, ok) ==
  LET added == Append(requestBuffer, q)
      threadE164 == attributes.threadE164
      threadAci == attributes.threadAci
      groupV2Id == attributes.groupV2Id
      byGroup == IF groupV2Id # "none"
                   THEN conversationGet(conversations, groupV2Id)
                   ELSE NoConversation
      looksUp == byGroup = NoConversation /\ (threadE164 # "none" \/ threadAci # "none")
      conversation == IF looksUp
                        THEN lookupOrCreate(conversations, threadE164, threadAci)
                        ELSE byGroup
  IN /\ requestPc[q] = "none"
     /\ \A t \in RequestIds : t < q => requestPc[t] # "none"
     /\ ok \/ groupV2Id # "none" \/ looksUp
     /\ IF ~ok
          THEN /\ requestPc' = [requestPc EXCEPT ![q] = onResponseCatch]
               /\ requestBuffer' = added
               /\ requests' = [requests EXCEPT ![q] = attributes]
               /\ last' = NoEffects
               /\ UNCHANGED << conversations, responses >>
        ELSE IF conversation = NoConversation
          THEN /\ requestPc' = [requestPc EXCEPT ![q] = "noTarget"]
               /\ requestBuffer' = added
               /\ requests' = [requests EXCEPT ![q] = attributes]
               /\ last' = NoEffects
               /\ UNCHANGED << conversations, responses >>
        ELSE /\ requestPc' = [requestPc EXCEPT ![q] = "done"]
             /\ conversations' = conversations \cup {conversation}
             /\ responses' = Append(responses,
                                    [conversation |-> conversation.id,
                                     type |-> attributes.type, fromSync |-> TRUE])
             /\ requestBuffer' = remove(added, q)
             /\ requests' = requests
             /\ last' = [op |-> "applyMessageRequestResponse", request |-> q,
                         attributes |-> attributes, conversation |-> conversation.id]
     /\ UNCHANGED << db, receiptVars, syncVars >>

\* MessageRequests.forConversation (lines 133-175) called for a conversation
\* that became available
ForConversation(conversation) ==
  LET syncByE164 ==
        IF conversation.e164 # "none"
          THEN find(requestBuffer,
                    { q \in Range(requestBuffer) :
                        requests[q].threadE164 = conversation.e164 })
          ELSE 0
      syncByAci ==
        IF conversation.serviceId # "none"
          THEN find(requestBuffer,
                    { q \in Range(requestBuffer) :
                        requests[q].threadAci = conversation.serviceId })
          ELSE 0
      syncByGroupId ==
        IF conversation.groupId # "none"
          THEN find(requestBuffer,
                    { q \in Range(requestBuffer) :
                        requests[q].groupV2Id = conversation.groupId })
          ELSE 0
      found == IF syncByE164 # 0 THEN syncByE164
               ELSE IF syncByAci # 0 THEN syncByAci
               ELSE syncByGroupId
  IN /\ requestBuffer # << >>
     /\ requestBuffer' = IF found = 0 THEN requestBuffer
                         ELSE remove(requestBuffer, found)
     /\ requests' = IF found = 0 THEN requests
                    ELSE [requests EXCEPT ![found] = NoRequest]
     /\ last' = IF found = 0 THEN NoEffects
                ELSE [op |-> "forConversation", found |-> found,
                      attributes |-> requests[found],
                      conversation |-> conversation.id]
     /\ UNCHANGED << db, conversations, receiptVars, syncVars, requestPc, responses >>

RequestInit ==
  /\ db = << >>
  /\ settings = [readReceiptSetting |-> TRUE, storyViewReceiptsEnabled |-> TRUE]
  /\ Constructed

RequestNext ==
  \/ \E q \in RequestIds, attributes \in RequestAttributes, ok \in BOOLEAN :
       OnResponse(q, attributes, ok)
  \/ \E conversation \in conversations \cup ConversationArrivals :
       ForConversation(conversation)

RequestSpec == RequestInit /\ [][RequestNext]_vars

(***************************************************************************)
(* The three entry points, with every collaborator call settling.  The     *)
(* three singletons share no state a call waits on, so a behaviour         *)
(* exercises one of them: MessageReceipts over the stored outgoing         *)
(* messages, ViewOnceOpenSyncs over the stored view-once messages,         *)
(* MessageRequests over the conversations.  Only the steps of the calls    *)
(* are taken: a call settles whatever forMessage or the settings do.       *)
(***************************************************************************)
NoSyncArrived == \A s \in SyncIds : syncPc[s] = "none"

NoResponseArrived == \A q \in RequestIds : requestPc[q] = "none"

EntryInit == Init \/ SyncInit \/ RequestInit

OnReceiptSteps ==
  \/ \E r \in ReceiptIds, attributes \in ReceiptAttributes : OnReceipt(r, attributes)
  \/ \E r \in ReceiptIds, ok \in BOOLEAN : GetMessagesSettles(r, ok)
  \/ \E r \in ReceiptIds, ok \in BOOLEAN : GetGroupsSettles(r, ok)
  \/ BatcherTimeout
  \/ \E ok \in BOOLEAN, shares \in SuccessfulPhoneNumberShares : BatchSettles(ok, shares)

OnSyncSteps ==
  \/ \E s \in SyncIds, attributes \in SyncAttributes : OnSync(s, attributes)
  \/ \E s \in SyncIds, ok \in BOOLEAN : SyncGetMessagesSettles(s, ok)
  \/ \E s \in SyncIds, ok \in BOOLEAN : MarkViewedSettles(s, ok)

OnResponseSteps ==
  \E q \in RequestIds, attributes \in RequestAttributes, ok \in BOOLEAN :
    OnResponse(q, attributes, ok)

EntryNext ==
  \/ /\ db \notin SyncScenarios
     /\ OnReceiptSteps
  \/ /\ db \in SyncScenarios
     /\ NoResponseArrived
     /\ OnSyncSteps
  \/ /\ db = << >>
     /\ NoSyncArrived
     /\ OnResponseSteps

\* every storage call, the batcher's timer and every batch settle
CollaboratorsSettle ==
  /\ \A r \in ReceiptIds :
       /\ WF_vars(\E ok \in BOOLEAN : GetMessagesSettles(r, ok))
       /\ WF_vars(\E ok \in BOOLEAN : GetGroupsSettles(r, ok))
  /\ WF_vars(BatcherTimeout)
  /\ WF_vars(\E ok \in BOOLEAN, shares \in SuccessfulPhoneNumberShares : BatchSettles(ok, shares))
  /\ \A s \in SyncIds :
       /\ WF_vars(\E ok \in BOOLEAN : SyncGetMessagesSettles(s, ok))
       /\ WF_vars(\E ok \in BOOLEAN : MarkViewedSettles(s, ok))

EntrySpec == EntryInit /\ [][EntryNext]_vars /\ CollaboratorsSettle

(***************************************************************************)
(* deleteSentProtoBatcher on its own, with the clock (spec 4.5): items are *)
(* added, time passes, the timer fires, batches settle.                    *)
(***************************************************************************)
\* bounds: the add calls of a behaviour, the time it covers, the clock's step
MaxAdds == 32

MaxTime == 500

TickLength == 125

\* the n-th item handed to deleteSentProtoBatcher.add
CleanupRequest(n) ==
  [receipt |-> 0,
   item |-> [timestamp |-> n, recipientServiceId |-> "s1", deviceId |-> 1]]

\* the batches b hands to processBatch beyond the ones of inflight, as history
newBatchCalls(b) ==
  [k \in 1..(Len(b.inflight) - Len(inflight)) |->
     [at |-> now,
      items |-> [i \in DOMAIN b.inflight[Len(inflight) + k] |->
                   b.inflight[Len(inflight) + k][i].item.timestamp]]]

\* deleteSentProtoBatcher.add(item): the timer is armed by the first item of a
\* queue and cleared when the queue is handed to processBatch
BatcherAdd ==
  /\ addCount < MaxAdds
  /\ LET b == batcherAdd([queue |-> batchQueue, inflight |-> inflight],
                         CleanupRequest(addCount + 1), FALSE)
     IN /\ batchQueue' = b.queue
        /\ inflight' = b.inflight
        /\ timeout' = IF b.queue = << >> THEN NoTimeout
                      ELSE IF batchQueue = << >> THEN now + BatcherWait
                      ELSE timeout
        /\ batchCalls' = batchCalls \o newBatchCalls(b)
  /\ addCount' = addCount + 1
  /\ firstAddAt' = IF addCount = 0 THEN now ELSE firstAddAt
  /\ lastAddAt' = now
  /\ UNCHANGED << db, history, conversations, settings, signalCI, receipts, buffer, pc, snapshot,
                  readSettingAtAdd, handedOut, last, syncVars, requestVars, now, flushCall >>

\* time passes, up to the moment the armed timer fires
Tick ==
  /\ now < MaxTime
  /\ timeout = NoTimeout \/ now < timeout
  /\ now' = IF timeout # NoTimeout /\ now + TickLength > timeout
              THEN timeout ELSE now + TickLength
  /\ UNCHANGED << db, history, conversations, settings, signalCI, receipts, buffer, pc, snapshot,
                  readSettingAtAdd, handedOut, batchQueue, inflight, last, syncVars, requestVars,
                  timeout, addCount, firstAddAt, lastAddAt, batchCalls, flushCall >>

\* the timer fires: the queued items are handed to processBatch
TimerFires ==
  /\ timeout # NoTimeout
  /\ now >= timeout
  /\ LET b == kickBatchOff([queue |-> batchQueue, inflight |-> inflight])
     IN /\ batchQueue' = b.queue
        /\ inflight' = b.inflight
        /\ batchCalls' = batchCalls \o newBatchCalls(b)
  /\ timeout' = NoTimeout
  /\ UNCHANGED << db, history, conversations, settings, signalCI, receipts, buffer, pc, snapshot,
                  readSettingAtAdd, handedOut, last, syncVars, requestVars, now, addCount,
                  firstAddAt, lastAddAt, flushCall >>

\* deleteSentProtoBatcher.flushAndWait(): the timer is cleared and the queued
\* items are handed to processBatch at once; the call waits for that batch
FlushAndWait ==
  /\ flushCall.pc = "idle"
  /\ LET b == kickBatchOff([queue |-> batchQueue, inflight |-> inflight])
     IN /\ batchQueue' = b.queue
        /\ inflight' = b.inflight
        /\ batchCalls' = batchCalls \o newBatchCalls(b)
        /\ flushCall' =
             IF batchQueue = << >>
               THEN [pc |-> "resolved", awaits |-> 0, items |-> {}]
               ELSE [pc |-> "waiting", awaits |-> Len(b.inflight),
                     items |-> { batchQueue[i].item.timestamp : i \in DOMAIN batchQueue }]
  /\ timeout' = NoTimeout
  /\ UNCHANGED << db, history, conversations, settings, signalCI, receipts, buffer, pc, snapshot,
                  readSettingAtAdd, handedOut, last, syncVars, requestVars, now, addCount,
                  firstAddAt, lastAddAt >>

BatcherInit ==
  /\ db = << >>
  /\ settings = [readReceiptSetting |-> TRUE, storyViewReceiptsEnabled |-> TRUE]
  /\ Constructed

BatcherNext ==
  \/ BatcherAdd
  \/ Tick
  \/ TimerFires
  \/ FlushAndWait
  \/ \E ok \in BOOLEAN, shares \in SuccessfulPhoneNumberShares : BatchSettles(ok, shares)

BatcherSpec == BatcherInit /\ [][BatcherNext]_vars

(***************************************************************************)
(* Properties                                                              *)
(***************************************************************************)
\* the status a receipt kind stands for, as a rank of the lattice
ReceiptRank(type) ==
  CASE type = "Delivery" -> StatusRank("Delivered")
    [] type = "Read" -> StatusRank("Read")
    [] type = "View" -> StatusRank("Viewed")

\* rank of a recipient in a send-state mapping; a missing entry counts as Sent
RankIn(mapping, c) == StatusRank(getOwn(mapping, c, SendState("Sent", 0)).status)

\* the receipt policy as the specification states it
PolicyApplies(receipt, message, current) ==
  CASE receipt.type = "Delivery" -> TRUE
    [] receipt.type = "Read" -> current.readReceiptSetting
    [] receipt.type = "View" ->
         IF message.type = "story"
           THEN current.storyViewReceiptsEnabled
           ELSE current.readReceiptSetting
    [] OTHER -> FALSE

\* a message we sent: forMessage looks for its early receipts
SentByUs(message) ==
  /\ message.type \in {"outgoing", "story"}
  /\ getSourceServiceId(message) = OurAci

\* the buffered receipts for which onReceipt found no target and that are for
\* the sent timestamp of message
EarlyReceiptsFor(message) ==
  { r \in buffer : /\ pc[r] = "noTarget"
                   /\ receipts[r].messageSentAt = getMessageSentTimestamp(message) }

AvailableMessages == Arrivals \cup Range(db)

\* C1 (as amended): when a message we sent calls forMessage, every receipt for
\* its sent timestamp for which onReceipt had found no target leaves the
\* buffer; the call returns it exactly when it passes the receipt policy under
\* the current settings (and no receipt of an unknown kind made the call
\* throw).  No receipt is returned by two forMessage calls: a call returns
\* only receipts it takes out of the buffer, and the only receipts that enter
\* the buffer are newly arrived ones.
C1_EarlyReceiptRetrievedOnce ==
  [][ /\ \A message \in AvailableMessages :
           (last'.op = "forMessage" /\ SentByUs(message) /\ ForMessage(message)) =>
             \A r \in EarlyReceiptsFor(message) :
               /\ r \notin buffer'
               /\ r \in last'.result <=>
                    /\ ~last'.threw
                    /\ PolicyApplies(receipts[r], message, settings)
      /\ last'.op = "forMessage" =>
           /\ last'.result \subseteq buffer
           /\ last'.result \cap buffer' = {}
      /\ \A r \in buffer' \ buffer : pc[r] = "none" ]_vars

\* C1 as stated: the forMessage call of a matching message retrieves every such
\* receipt
C1_Original ==
  [][ \A message \in AvailableMessages :
        (last'.op = "forMessage" /\ SentByUs(message) /\ ForMessage(message)) =>
          \A r \in EarlyReceiptsFor(message) :
            r \notin buffer' /\ r \in last'.result ]_vars

\* an early receipt has been returned to its message
C1_Witness ==
  /\ last.op = "forMessage"
  /\ \E r \in last.result : pc[r] = "noTarget" /\ r \notin buffer

\* the send-state mappings of a message: the top-level one and the revisions'
MappingsOf(message) ==
  << message.sendStateByConversationId >> \o
    [i \in DOMAIN message.editHistory |->
       message.editHistory[i].sendStateByConversationId]

\* C2: no step lowers the status of a recipient in any send-state mapping
\* (Pending/Sent <= Delivered <= Read <= Viewed), and no step makes a status
\* Failed.
C2_StatusNeverRegresses ==
  [][ \A id \in DOMAIN db :
        db'[id] # db[id] =>
        /\ Len(MappingsOf(db'[id])) = Len(MappingsOf(db[id]))
        /\ \A k \in DOMAIN MappingsOf(db[id]) :
             LET old == MappingsOf(db[id])[k]
                 new == MappingsOf(db'[id])[k]
             IN /\ DOMAIN old \subseteq DOMAIN new
                /\ \A c \in DOMAIN new :
                     /\ RankIn(new, c) >= RankIn(old, c)
                     /\ new[c].status = "Failed" =>
                          c \in DOMAIN old /\ old[c].status = "Failed" ]_vars

\* a Delivery receipt has been merged into a recipient that is already Viewed
C2_Witness ==
  /\ last.op = "update"
  /\ last.attributes.type = "Delivery"
  /\ \E id \in last.kept :
       /\ matchesTopLevel(last.attributes, db[id])
       /\ RankIn(db[id].sendStateByConversationId,
                 last.attributes.sourceConversationId) = StatusRank("Viewed")

\* C3: an onReceipt run that follows at once a run with identical receipt
\* attributes and the same targets leaves every message as the first run left
\* it: no top-level or edit-history mapping changes, nothing is persisted.
C3_SameReceiptTwice ==
  [][ (last'.op = "update" /\ last'.repeats) =>
        /\ db' = db
        /\ last'.persisted = {} ]_vars

\* a receipt has been merged a second time into a message
C3_Witness ==
  /\ last.op = "update"
  /\ last.repeats
  /\ \E id \in last.kept :
       /\ matchesTopLevel(last.attributes, db[id])
       /\ last.attributes.sourceConversationId \in
            DOMAIN db[id].sendStateByConversationId

\* C4: a Read receipt merged into the top-level mapping leaves the recipient at
\* Read or above, and a Delivery receipt merged into a recipient that is at
\* Read or above leaves the status as it is: after both, in either order, the
\* status is at least Read.
C4_ReadSurvivesDelivery ==
  [][ last'.op = "update" =>
        \A id \in last'.targets :
          LET receipt == last'.attributes
              c == receipt.sourceConversationId
              old == RankIn(db[id].sendStateByConversationId, c)
              new == RankIn(db'[id].sendStateByConversationId, c)
          IN (/\ PolicyApplies(receipt, db[id], settings)
              /\ receipt.messageSentAt
                   \in {db[id].timestamp, db[id].editMessageTimestamp}) =>
               /\ receipt.type = "Read" => new >= StatusRank("Read")
               /\ (receipt.type = "Delivery" /\ old >= StatusRank("Read")) =>
                    new = old ]_vars

\* a Delivery receipt has been merged into a recipient that a Read receipt had
\* moved to Read (no message starts with a top-level status Read)
C4_Witness ==
  /\ last.op = "update"
  /\ last.attributes.type = "Delivery"
  /\ \E id \in last.kept :
       /\ matchesTopLevel(last.attributes, db[id])
       /\ getOwn(db[id].sendStateByConversationId,
                 last.attributes.sourceConversationId,
                 SendState("Sent", 0)).status = "Read"

\* the receipt has been merged into a mapping: its recipient has an entry at or
\* above the receipt's status and not below the old one
MergedInto(old, new, receipt) ==
  LET c == receipt.sourceConversationId
  IN /\ DOMAIN new = DOMAIN old \cup {c}
     /\ RankIn(new, c) >= ReceiptRank(receipt.type)
     /\ RankIn(new, c) >= RankIn(old, c)
     /\ \A x \in DOMAIN old \ {c} : new[x] = old[x]

\* C5: when updateMessageSendState runs for a receipt and a target, the
\* settings of that moment decide: a Delivery receipt is merged; a Read receipt
\* is merged iff read-receipt-setting is on; a View receipt is merged iff story
\* view receipts are enabled (story message) or read-receipt-setting is on
\* (other message).  A receipt dropped for every target changes no message and
\* causes no persist, refresh or cleanup.
C5_PolicyAtResolution ==
  [][ last'.op = "update" =>
        LET receipt == last'.attributes
            applied == { id \in last'.targets :
                           PolicyApplies(receipt, db[id], settings) }
        IN /\ \A id \in last'.targets \ applied : db'[id] = db[id]
           /\ \A id \in applied :
                /\ matchesTopLevel(receipt, db[id]) =>
                     MergedInto(db[id].sendStateByConversationId,
                                db'[id].sendStateByConversationId, receipt)
                /\ \A i \in DOMAIN db[id].editHistory :
                     db[id].editHistory[i].timestamp = receipt.messageSentAt =>
                       MergedInto(db[id].editHistory[i].sendStateByConversationId,
                                  db'[id].editHistory[i].sendStateByConversationId,
                                  receipt)
           /\ applied = {} =>
                /\ db' = db
                /\ last'.persisted = {}
                /\ last'.updateLeftPane = {}
                /\ last'.enqueued = << >> ]_vars

\* a Read receipt buffered while read receipts were off has been merged after
\* they were switched on
C5_Witness ==
  /\ last.op = "update"
  /\ last.attributes.type = "Read"
  /\ ~last.readSettingAtAdd
  /\ settings.readReceiptSetting
  /\ last.persisted # {}

SettledQuietly == {"done", "noTarget", "failed"}

\* C7: with every collaborator call settling, each started onReceipt, onSync
\* and onResponse call settles, and none of them throws to its caller, also
\* when a collaborator finds nothing or fails
C7_EntryPointsSettle ==
  /\ \A r \in ReceiptIds : (pc[r] \in Suspended) ~> (pc[r] \in SettledQuietly)
  /\ \A s \in SyncIds :
       (syncPc[s] \in {"getMessages", "markViewed"}) ~> (syncPc[s] \in SettledQuietly)
  /\ [](\A r \in ReceiptIds : pc[r] \in {"none"} \cup Suspended \cup SettledQuietly)
  /\ [](\A s \in SyncIds :
          syncPc[s] \in {"none", "getMessages", "markViewed"} \cup SettledQuietly)
  /\ [](\A q \in RequestIds : requestPc[q] \in {"none"} \cup SettledQuietly)

\* an onReceipt call has settled through its catch block after a collaborator
\* failed, and another has settled after finding no message
C7_Witness ==
  \E r, q \in ReceiptIds : pc[r] = "failed" /\ pc[q] = "noTarget"

\* C8: after a failure inside onReceipt the receipt is not left in the buffer
C8_FailedReceiptDropped ==
  \A r \in ReceiptIds : pc[r] = "failed" => r \notin buffer

\* C9 as stated: persist and refresh happen iff a mapping changed, and a
\* receipt that changes nothing has no side effect at all
C9_Original ==
  [][ last'.op = "update" =>
        /\ last'.persisted # {} <=> db' # db
        /\ last'.updateLeftPane # {} <=> db' # db
        /\ db' = db => last'.enqueued = << >> ]_vars

\* C9 (as amended): a target message is queued for persistence iff its
\* top-level mapping or its edit history changed; the last-message refresh is
\* invoked for exactly the conversations of the changed messages that the
\* conversation controller knows.  (A cleanup request may be enqueued whether
\* or not anything changed.)
C9_PersistIffChanged ==
  [][ last'.op = "update" =>
        LET changed ==
              { id \in DOMAIN db :
                  \/ db'[id].sendStateByConversationId
                       # db[id].sendStateByConversationId
                  \/ db'[id].editHistory # db[id].editHistory }
        IN /\ last'.persisted = changed
           /\ last'.updateLeftPane =
                { db[id].conversationId : id \in changed }
                  \cap { c.id : c \in conversations } ]_vars

\* a receipt that changed nothing was not persisted and still enqueued a cleanup
C9_Witness ==
  /\ last.op = "update"
  /\ last.kept # {}
  /\ last.persisted = {}
  /\ last.updateLeftPane = {}
  /\ last.enqueued # << >>

\* C10: for a receipt that the policy lets through and a target message, the
\* top-level mapping receives the merge exactly when messageSentAt is the
\* message's timestamp or editMessageTimestamp, each revision of the edit
\* history exactly when its timestamp is messageSentAt; the other revisions,
\* the other recipients' entries, the other fields and the other messages stay
\* as they are.
C10_MergedWhereTimestampsMatch ==
  [][ last'.op = "update" =>
        \A id \in DOMAIN db :
          LET receipt == last'.attributes
              t == receipt.messageSentAt
              old == db[id]
              new == db'[id]
          IN IF id \in last'.targets /\ PolicyApplies(receipt, old, settings)
               THEN /\ IF t = old.timestamp \/ t = old.editMessageTimestamp
                         THEN MergedInto(old.sendStateByConversationId,
                                         new.sendStateByConversationId, receipt)
                         ELSE new.sendStateByConversationId
                                = old.sendStateByConversationId
                    /\ Len(new.editHistory) = Len(old.editHistory)
                    /\ \A i \in DOMAIN old.editHistory :
                         IF old.editHistory[i].timestamp = t
                           THEN /\ new.editHistory[i].timestamp = t
                                /\ MergedInto(
                                     old.editHistory[i].sendStateByConversationId,
                                     new.editHistory[i].sendStateByConversationId,
                                     receipt)
                           ELSE new.editHistory[i] = old.editHistory[i]
                    /\ [new EXCEPT !.sendStateByConversationId =
                                     old.sendStateByConversationId,
                                   !.editHistory = old.editHistory] = old
               ELSE new = old ]_vars

\* a receipt for an intermediate revision has changed the edit history of a
\* message whose top-level mapping it does not concern
C10_Witness ==
  /\ last.op = "update"
  /\ \E id \in last.persisted :
       /\ ~matchesTopLevel(last.attributes, db[id])
       /\ \E i \in DOMAIN db[id].editHistory :
            /\ db[id].editHistory[i].timestamp = last.attributes.messageSentAt
            /\ last.attributes.sourceConversationId
                 \in DOMAIN db[id].editHistory[i].sendStateByConversationId

\* the conversations of the receipt's source that have a service id
RecipientOf(receipt) ==
  { c \in conversations :
      c.id = receipt.sourceConversationId /\ c.serviceId # "none" }

\* the cleanup condition as the specification states it: the receipt passes
\* the policy and is a Read receipt, or a Delivery receipt sent encrypted to a
\* recipient among the message's sealed-sender deliveries
CleanupDue(receipt, message) ==
  /\ PolicyApplies(receipt, message, settings)
  /\ \/ receipt.type = "Read"
     \/ /\ receipt.type = "Delivery"
        /\ receipt.wasSentEncrypted
        /\ \E c \in conversations :
             /\ c.id = receipt.sourceConversationId
             /\ c.serviceId \in message.unidentifiedDeliveries

\* the request a receipt enqueues
CleanupRequestOf(receipt) ==
  [timestamp |-> receipt.messageSentAt,
   recipientServiceId |-> receipt.sourceServiceId,
   deviceId |-> receipt.sourceDevice]

\* C11 as stated: resolving a receipt against a message enqueues a cleanup
\* request exactly when the cleanup condition holds
C11_Original ==
  [][ last'.op = "update" =>
        /\ Len(last'.enqueued) =
             Cardinality({ id \in last'.targets : CleanupDue(last'.attributes, db[id]) })
        /\ \A i \in DOMAIN last'.enqueued :
             last'.enqueued[i] = CleanupRequestOf(last'.attributes) ]_vars

\* C11 (as amended): resolving a receipt against a message enqueues the cleanup
\* request {messageSentAt, recipient service id, device id} exactly when the
\* cleanup condition holds and the conversation controller has a conversation
\* with a service id for the receipt's source and the receipt has a device id;
\* a View receipt, a policy-dropped receipt and a Delivery receipt failing the
\* sealed-sender condition enqueue nothing
C11_CleanupEnqueuedWhenDue ==
  [][ last'.op = "update" =>
        /\ Len(last'.enqueued) =
             Cardinality({ id \in last'.targets :
                             /\ CleanupDue(last'.attributes, db[id])
                             /\ RecipientOf(last'.attributes) # {}
                             /\ last'.attributes.sourceDevice # 0 })
        /\ \A i \in DOMAIN last'.enqueued :
             last'.enqueued[i] = CleanupRequestOf(last'.attributes) ]_vars

\* a sealed-sender Delivery receipt has enqueued its cleanup request
C11_Witness ==
  /\ last.op = "update"
  /\ last.attributes.type = "Delivery"
  /\ last.enqueued = << CleanupRequestOf(last.attributes) >>

\* the items of the batch calls, in the order they were handed over
RECURSIVE ItemsOf(_)
ItemsOf(calls) ==
  IF calls = << >> THEN << >> ELSE Head(calls).items \o ItemsOf(Tail(calls))

\* every add was made within one wait of the first one, and nothing was flushed
WithinOneWindow ==
  /\ lastAddAt < firstAddAt + 250
  /\ flushCall.pc = "idle"

\* C12: no batch call receives more than 30 items; every item added is in the
\* queue or was handed to exactly one batch call, in the order of the adds; 31
\* items added within one wait give a batch call of the first 30 items, at the
\* 30th add, and then one of the last item; 5 items added within one wait and
\* nothing after give no batch call before the wait has elapsed and then one
\* batch call of the 5 items, 250 after the first add
C12_BatcherTriggering ==
  /\ \A k \in DOMAIN batchCalls : Len(batchCalls[k].items) <= 30
  /\ ItemsOf(batchCalls) \o [i \in DOMAIN batchQueue |-> batchQueue[i].item.timestamp]
       = [n \in 1..addCount |-> n]
  /\ (addCount = 31 /\ WithinOneWindow) =>
       /\ Len(batchCalls) >= 1
       /\ Len(batchCalls[1].items) = 30
       /\ batchCalls[1].at < firstAddAt + 250
       /\ batchQueue = << >> =>
            /\ Len(batchCalls) = 2
            /\ batchCalls[2] = [at |-> lastAddAt + 250, items |-> << 31 >>]
  /\ (addCount = 5 /\ WithinOneWindow) =>
       /\ now < firstAddAt + 250 => batchCalls = << >>
       /\ now > firstAddAt + 250 => batchQueue = << >>
       /\ batchQueue = << >> =>
            batchCalls = << [at |-> firstAddAt + 250, items |-> << 1, 2, 3, 4, 5 >>] >>

\* 31 items were added within one wait and two batch calls have been made
C12_Witness ==
  /\ addCount = 31
  /\ WithinOneWindow
  /\ firstAddAt < lastAddAt
  /\ Len(batchCalls) = 2
  /\ batchQueue = << >>

\* the items that are queued or in a batch that has not settled
PendingItems ==
  { batchQueue[i].item.timestamp : i \in DOMAIN batchQueue }
    \cup UNION { { inflight[k][i].item.timestamp : i \in DOMAIN inflight[k] } :
                 k \in DOMAIN inflight }

\* C13: a flushAndWait call hands every item queued at the call to processBatch
\* at that moment, whatever the timer; it has not resolved while one of these
\* items is queued or in a batch that has not settled
C13_FlushDrains ==
  /\ [][ (flushCall.pc = "idle" /\ flushCall'.pc # "idle") =>
           /\ batchQueue' = << >>
           /\ flushCall'.items =
                { batchQueue[i].item.timestamp : i \in DOMAIN batchQueue }
           /\ batchQueue # << >> =>
                /\ batchCalls' # << >>
                /\ batchCalls'[Len(batchCalls')] =
                     [at |-> now,
                      items |-> [i \in DOMAIN batchQueue |->
                                   batchQueue[i].item.timestamp]]
                /\ flushCall'.pc = "waiting" ]_vars
  /\ [](flushCall.pc = "resolved" => flushCall.items \cap PendingItems = {})

\* a flushAndWait call made before the wait had elapsed, while an earlier batch
\* had not settled, has resolved
C13_Witness ==
  /\ flushCall.pc = "resolved"
  /\ flushCall.items # {}
  /\ Len(batchCalls) >= 2
  /\ inflight = << >>

\* C14: a receipt that forMessage has returned to its caller while the
\* onReceipt call for it was suspended at a storage read is not applied to a
\* message by the resumed onReceipt call as well
C14_NotAppliedTwice ==
  [][ \A r \in handedOut :
        ~(last'.op = "update" /\ last'.receipt = r /\ last'.kept # {}) ]_vars

\* C15: an event that is in one of the three buffers has not had its effect
\* applied: no buffered receipt has been merged into a message, no buffered
\* view-once sync has marked its message, no buffered message request response
\* has been dispatched to its conversation
C15_BufferedNeverApplied ==
  /\ \A r \in buffer :
       /\ pc[r] # "awaitBatch"
       /\ ~(last.op = "update" /\ last.receipt = r /\ last.kept # {})
  /\ \A s \in Range(syncBuffer) : syncPc[s] # "done"
  /\ \A q \in Range(requestBuffer) : requestPc[q] # "done"

\* the conversations a message request response names by phone number, by
\* service identity and by group id
ByPhoneNumber(attributes) ==
  { c \in conversations :
      attributes.threadE164 # "none" /\ c.e164 = attributes.threadE164 }

ByServiceIdentity(attributes) ==
  { c \in conversations :
      attributes.threadAci # "none" /\ c.serviceId = attributes.threadAci }

ByGroupId(attributes) ==
  { c \in conversations :
      attributes.groupV2Id # "none" /\ c.groupId = attributes.groupV2Id }

\* C16: when onResponse dispatches a response that carries a phone number or a
\* service identity as well as a group-v2 id, the conversation that receives it
\* is the one of the phone number, else the one of the service identity, else
\* the one created from them
C16_PhoneThenIdentityThenGroup ==
  [][ (/\ last'.op = "applyMessageRequestResponse"
       /\ last'.attributes.groupV2Id # "none"
       /\ \/ last'.attributes.threadE164 # "none"
          \/ last'.attributes.threadAci # "none") =>
        LET attributes == last'.attributes
            target == last'.conversation
        IN IF ByPhoneNumber(attributes) # {}
             THEN target \in { c.id : c \in ByPhoneNumber(attributes) }
           ELSE IF ByServiceIdentity(attributes) # {}
             THEN target \in { c.id : c \in ByServiceIdentity(attributes) }
           ELSE /\ target \notin { c.id : c \in conversations }
                /\ \E c \in conversations' :
                     /\ c.id = target
                     /\ c.e164 = attributes.threadE164
                     /\ c.serviceId = attributes.threadAci ]_vars

\* the messages the onReceipt call of r selects its target from
MessagesReadBy(r) ==
  IF pc[r] = "getMessages"
    THEN getMessagesBySentAt(db, receipts[r].messageSentAt)
    ELSE snapshot[r]

\* the first of the outgoing or story messages whose conversation is in ids,
\* in storage order; 0 when there is none
FirstSentTo(messages, ids) ==
  LET hits == { i \in DOMAIN messages :
                  /\ messages[i].type \in {"outgoing", "story"}
                  /\ messages[i].conversationId \in ids }
  IN IF hits = {} THEN 0
     ELSE messages[CHOOSE i \in hits : \A j \in hits : j >= i].id

\* the target the specification gives a receipt among messages
PrimaryTarget(receipt, messages) ==
  LET direct == FirstSentTo(messages, {receipt.sourceConversationId})
      viaGroup == FirstSentTo(messages,
                              getAllGroupsInvolvingServiceId(receipt.sourceServiceId))
  IN IF direct # 0 THEN direct ELSE viaGroup

\* C17: when an onReceipt call goes on from target selection, the receipt is
\* applied to exactly the target the priority gives: the first outgoing or
\* story message of the source conversation, else the first outgoing or story
\* message of a group of the source identity; the groups are asked for only
\* when no message of the source conversation qualifies; when no message
\* qualifies at all there is no primary target, and the call ends without a
\* target or goes on with story copies only
C17_TargetSelection ==
  [][ \A r \in ReceiptIds :
        LET receipt == receipts[r]
            messages == MessagesReadBy(r)
            primary == PrimaryTarget(receipt, messages)
        IN /\ (pc[r] = "getMessages" /\ pc'[r] = "getGroups") =>
                FirstSentTo(messages, {receipt.sourceConversationId}) = 0
           /\ (/\ pc[r] \in {"getMessages", "getGroups"}
               /\ pc'[r] \in {"done", "awaitBatch", "noTarget"}) =>
                IF primary # 0
                  THEN /\ last'.op = "update"
                       /\ last'.receipt = r
                       /\ last'.targets = {primary}
                  ELSE \/ pc'[r] = "noTarget"
                       \/ /\ last'.op = "update"
                          /\ last'.receipt = r
                          /\ \A id \in last'.targets :
                               db[id].storyDistributionListId ]_vars

\* a receipt has been applied to the first of two messages of a group of its
\* source, although an incoming message of the source conversation with the
\* same timestamp comes first in storage
C17_Witness ==
  /\ last.op = "update"
  /\ last.targets = {2}
  /\ Len(db) = 3
  /\ db[1].type = "incoming"
  /\ db[1].conversationId = last.attributes.sourceConversationId
  /\ db[2].conversationId = "g1"
  /\ db[3].conversationId = "g1"

\* the story copies among messages that were sent to the source of receipt
\* and are not deleted for everyone
StoryCopiesFor(receipt, messages) ==
  { m.id : m \in
      { x \in Range(messages) :
          /\ x.storyDistributionListId
          /\ ~x.deletedForEveryone
          /\ receipt.sourceConversationId \in DOMAIN x.sendStateByConversationId } }

\* C18: when an onReceipt call goes on from target selection without a primary
\* target, updateMessageSendState runs for exactly the messages of that sent
\* timestamp that have a story distribution list id, are not deleted for
\* everyone and have a send-state entry for the source conversation: the
\* receipt is merged into each of them that passes the policy and every other
\* message is left as it was; when there is no such message the call ends
\* without a target and no message is modified
C18_StoryCopies ==
  [][ \A r \in ReceiptIds :
        LET receipt == receipts[r]
            messages == MessagesReadBy(r)
            copies == StoryCopiesFor(receipt, messages)
        IN (/\ pc[r] \in {"getMessages", "getGroups"}
            /\ pc'[r] \in {"done", "awaitBatch", "noTarget"}
            /\ PrimaryTarget(receipt, messages) = 0) =>
             IF copies = {}
               THEN pc'[r] = "noTarget" /\ db' = db
               ELSE /\ last'.op = "update"
                    /\ last'.receipt = r
                    /\ last'.targets = copies
                    /\ \A id \in DOMAIN db \ copies : db'[id] = db[id]
                    /\ \A id \in copies :
                         PolicyApplies(receipt, db[id], settings) =>
                           MergedInto(db[id].sendStateByConversationId,
                                      db'[id].sendStateByConversationId,
                                      receipt) ]_vars

\* a receipt without a primary target has been merged into the two story
\* copies sent to its source, and the third copy, sent to the source as well
\* but deleted for everyone, is as it was
C18_Witness ==
  /\ last.op = "update"
  /\ last.targets = {1, 2}
  /\ last.kept = {1, 2}
  /\ last.persisted = {1, 2}
  /\ Len(db) = 3
  /\ db[3].storyDistributionListId
  /\ db[3].deletedForEveryone
  /\ last.attributes.sourceConversationId \in DOMAIN db[3].sendStateByConversationId
  /\ db[3].sendStateByConversationId[last.attributes.sourceConversationId].status = "Sent"

(***************************************************************************)
(* Interleaved onReceipt calls, with the merges recorded                   *)
(***************************************************************************)
InterleavingInit ==
  /\ db \in Scenarios
  /\ settings \in [readReceiptSetting : BOOLEAN, storyViewReceiptsEnabled : BOOLEAN]
  /\ Singletons
  /\ conversations = InitialConversations
  /\ signalCI = FALSE
  /\ history = [initial |-> db, merges |-> << >>, recording |-> TRUE]

InterleavingSpec == InterleavingInit /\ [][Next]_vars

\* the orders in which n merges can be made one after the other
Orders(n) ==
  { f \in [1..n -> 1..n] : \A i, j \in 1..n : f[i] = f[j] => i = j }

\* the messages after the receipt of merge has been applied to its targets
AppliedTo(messages, merge) ==
  [id \in DOMAIN messages |->
     IF id \in merge.kept THEN mergedMessage(merge.receipt, messages[id])
                          ELSE messages[id]]

\* the messages after the first n merges have been applied in the given order
RECURSIVE SequentialResult(_, _, _, _)
SequentialResult(messages, merges, order, n) ==
  IF n = 0 THEN messages
  ELSE AppliedTo(SequentialResult(messages, merges, order, n - 1), merges[order[n]])

\* C19: however the onReceipt calls in flight are interleaved, the stored
\* messages are what applying the merged receipts one after the other, in
\* some order, to the messages of the start gives: no update is lost or
\* overwritten by a call that read the message before another call's merge
C19_InterleavingIsSequential ==
  history.recording =>
    \E order \in Orders(Len(history.merges)) :
      db = SequentialResult(history.initial, history.merges, order,
                            Len(history.merges))

\* two receipts from different recipients have been merged into the same
\* message; the second call had read the message before the first merge, and
\* the message holds both updates
C19_Witness ==
  /\ history.recording
  /\ Len(history.merges) = 2
  /\ history.merges[2].stale
  /\ history.merges[1].receipt.sourceConversationId
       # history.merges[2].receipt.sourceConversationId
  /\ \E id \in history.merges[1].kept \cap history.merges[2].kept :
       \A k \in 1..2 :
         /\ RankIn(history.initial[id].sendStateByConversationId,
                   history.merges[k].receipt.sourceConversationId)
              < StatusRank("Delivered")
         /\ RankIn(db[id].sendStateByConversationId,
                   history.merges[k].receipt.sourceConversationId)
              >= StatusRank("Delivered")

\* the buffered receipts for the sent timestamp of message
ReceiptsFor(message) ==
  { r \in buffer : receipts[r].messageSentAt = getMessageSentTimestamp(message) }

\* C20: a forMessage call for an outgoing or story message we sent takes every
\* receipt for the message's sent timestamp out of the buffer, the ones that
\* fail the policy included, and leaves every other receipt in it; when the
\* receipts found are of the kinds of MessageReceiptType, the call returns
\* exactly those of them that pass the policy under the current settings
C20_ForMessageRemovesAllReturnsPassing ==
  [][ \A message \in AvailableMessages :
        (SentByUs(message) /\ ForMessage(message)) =>
          LET found == ReceiptsFor(message)
              passing == { r \in found :
                             PolicyApplies(receipts[r], message, settings) }
          IN /\ buffer' = buffer \ found
             /\ (found # {} /\ \A r \in found : receipts[r].type \in MessageReceiptType) =>
                  /\ last'.op = "forMessage"
                  /\ last'.found = found
                  /\ last'.result = passing
                  /\ ~last'.threw
             /\ found = {} => last' = NoEffects ]_vars

\* a forMessage call has found two receipts and taken both out of the buffer:
\* it has returned the one that passes the policy and dropped the other
C20_Witness ==
  /\ last.op = "forMessage"
  /\ ~last.threw
  /\ Cardinality(last.found) = 2
  /\ Cardinality(last.result) = 1
  /\ last.found \cap buffer = {}

(***************************************************************************)
(* Cleanup with and without window.SignalCI                                *)
(***************************************************************************)
CleanupInit ==
  /\ db \in { << DirectMessage(1, "c1", 1, "Sent") >>,
              << GroupMessage(1, 1), DirectMessage(2, "c1", 1, "Pending") >> }
  /\ settings \in [readReceiptSetting : BOOLEAN, storyViewReceiptsEnabled : BOOLEAN]
  /\ signalCI \in BOOLEAN
  /\ Singletons
  /\ conversations = InitialConversations
  /\ history = NoHistory

CleanupSpec == CleanupInit /\ [][Next]_vars

\* C21: without window.SignalCI an onReceipt call that has enqueued a cleanup
\* request goes on to remove its receipt without waiting for the batch: no
\* call is suspended at the batcher; with window.SignalCI a call that enqueued
\* a request has flushed the batcher and waits for the batch it kicked off
C21_FireAndForgetOutsideCI ==
  /\ ~signalCI => \A r \in ReceiptIds : pc[r] # "awaitBatch"
  /\ signalCI =>
       \A r \in ReceiptIds :
         pc[r] = "awaitBatch" =>
           /\ batchQueue = << >>
           /\ pendingEntries(r, << >>, inflight)

(***************************************************************************)
(* processBatch with conversations that share our phone number             *)
(***************************************************************************)
SharesInit ==
  /\ db = << DirectMessage(1, "c1", 1, "Sent") >>
  /\ settings \in [readReceiptSetting : BOOLEAN, storyViewReceiptsEnabled : BOOLEAN]
  /\ Singletons
  /\ conversations = { [c EXCEPT !.shareMyPhoneNumber = TRUE] :
                         c \in InitialConversations }
  /\ signalCI = FALSE
  /\ history = NoHistory

SharesSpec == SharesInit /\ [][Next]_vars

\* the conversation without its shareMyPhoneNumber flag
Unflagged(c) ==
  [id |-> c.id, e164 |-> c.e164, serviceId |-> c.serviceId, groupId |-> c.groupId]

\* C22: when a cleanup batch succeeds with the reported service ids shares,
\* the shareMyPhoneNumber flag is cleared for the conversations whose service
\* id is reported and every other conversation keeps its flag; a reported id
\* without a conversation creates none; no conversation changes otherwise,
\* and the step persists nothing: the stored messages are as they were and no
\* persist or refresh is issued
C22_FlagClearedForReportedOnly ==
  [][ \A shares \in SuccessfulPhoneNumberShares :
        BatchSettles(TRUE, shares) =>
          /\ { Unflagged(c) : c \in conversations' }
               = { Unflagged(c) : c \in conversations }
          /\ \A c \in conversations : \A d \in conversations' :
               d.id = c.id =>
                 d.shareMyPhoneNumber =
                   (c.shareMyPhoneNumber /\ c.serviceId \notin shares)
          /\ db' = db
          /\ last' = NoEffects ]_vars

\* a batch has cleared the flag of the contact and left ours and the group's
\* set: every conversation has the flag at the start
C22_Witness ==
  /\ ~conversationGet(conversations, "c1").shareMyPhoneNumber
  /\ conversationGet(conversations, "me").shareMyPhoneNumber
  /\ conversationGet(conversations, "g1").shareMyPhoneNumber
  /\ \E r \in ReceiptIds : pc[r] = "done"

\* C23: an onResponse call for a response that carries a group-v2 id only,
\* when no conversation has that id, creates no conversation, applies no
\* response and returns normally; a conversation that an onResponse call
\* creates is made from the phone number or the service identity of the
\* response and is not a group
C23_NoConversationFromGroupId ==
  [][ \A q \in RequestIds, attributes \in RequestAttributes :
        OnResponse(q, attributes, TRUE) =>
          /\ (/\ attributes.threadE164 = "none"
              /\ attributes.threadAci = "none"
              /\ attributes.groupV2Id # "none"
              /\ \A c \in conversations :
                   attributes.groupV2Id \notin {c.id, c.groupId}) =>
               /\ conversations' = conversations
               /\ responses' = responses
               /\ requestPc'[q] = "noTarget"
          /\ \A c \in conversations' \ conversations :
               /\ c.groupId = "none"
               /\ c.e164 = attributes.threadE164
               /\ c.serviceId = attributes.threadAci
               /\ attributes.threadE164 # "none" \/ attributes.threadAci # "none" ]_vars

\* an onResponse call has returned without a conversation for a response that
\* carries only the id of a group no conversation has, and another call has
\* created a conversation from a phone number or a service identity
C23_Witness ==
  /\ \E q \in Range(requestBuffer) :
       /\ requestPc[q] = "noTarget"
       /\ requests[q].threadE164 = "none"
       /\ requests[q].threadAci = "none"
       /\ requests[q].groupV2Id = "g3"
       /\ \A c \in conversations : "g3" \notin {c.id, c.groupId}
  /\ conversations \ InitialConversations # {}
  /\ Len(responses) = 1

\* the sync is for the message: the timestamps are equal and an identifier
\* that both carry agrees
SyncMatchesMessage(sync, message) ==
  /\ sync.timestamp = message.timestamp
  /\ \/ /\ sync.sourceAci # "none"
        /\ sync.sourceAci = message.sourceServiceId
     \/ /\ sync.source # "none"
        /\ sync.source = message.source

\* the response names the conversation by phone number, service id or group id
ResponseMatchesConversation(response, conversation) ==
  \/ conversation.e164 # "none" /\ response.threadE164 = conversation.e164
  \/ conversation.serviceId # "none" /\ response.threadAci = conversation.serviceId
  \/ conversation.groupId # "none" /\ response.groupV2Id = conversation.groupId

\* C24: after ViewOnceOpenSyncs.forMessage(message) no sync matching the
\* message is left in the buffer, and after
\* MessageRequests.forConversation(conversation) no response matching the
\* conversation is left in the buffer
C24_NoMatchLeftBuffered ==
  [][ /\ \A message \in SyncArrivals \cup Range(db) :
           ViewOnceForMessage(message) =>
             \A s \in Range(syncBuffer') : ~SyncMatchesMessage(syncs[s], message)
      /\ \A conversation \in conversations \cup ConversationArrivals :
           ForConversation(conversation) =>
             \A q \in Range(requestBuffer') :
               ~ResponseMatchesConversation(requests[q], conversation) ]_vars

\* the stored messages a sync is for
MessagesOfSync(sync) ==
  { m.id : m \in { x \in Range(db) : SyncMatchesMessage(sync, x) } }

\* C25: when the storage read of an onSync call settles and a stored message
\* is for the sync, the call goes on to mark such a message, with the sync
\* still buffered and nothing marked yet; when the marking settles well the
\* message is marked as viewed from a sync and the sync leaves the buffer in
\* that step.  When no stored message is for the sync, or when the marking
\* fails, the call returns, marks nothing and leaves the buffer as it is.  A
\* sync leaves the buffer only by a completed marking or by forMessage.
C25_MarkedThenRemoved ==
  [][ \A s \in SyncIds :
        LET targets == MessagesOfSync(syncs[s])
        IN /\ (syncPc[s] = "getMessages" /\ syncPc'[s] \in {"markViewed", "noTarget"}) =>
                /\ IF targets # {}
                     THEN syncPc'[s] = "markViewed" /\ syncFound'[s] \in targets
                     ELSE syncPc'[s] = "noTarget"
                /\ syncBuffer' = syncBuffer
                /\ viewedOnce' = viewedOnce
           /\ (syncPc[s] = "markViewed" /\ syncPc'[s] = "done") =>
                /\ syncFound[s] \in targets
                /\ viewedOnce' = viewedOnce \cup {syncFound[s]}
                /\ last'.op = "markViewOnceMessageViewed"
                /\ last'.message = syncFound[s]
                /\ last'.fromSync
                /\ syncBuffer' = remove(syncBuffer, s)
           /\ (syncPc[s] \in {"getMessages", "markViewed"} /\ syncPc'[s] = "failed") =>
                /\ syncBuffer' = syncBuffer
                /\ viewedOnce' = viewedOnce
           /\ (s \in Range(syncBuffer) /\ s \notin Range(syncBuffer')) =>
                \/ syncPc[s] = "markViewed" /\ syncPc'[s] = "done"
                \/ last'.op = "viewOnceForMessage" /\ last'.found = s ]_vars

\* one sync has marked its message and left the buffer; another, whose call
\* found no message or failed, is still buffered
C25_Witness ==
  /\ last.op = "markViewOnceMessageViewed"
  /\ last.message \in viewedOnce
  /\ last.sync \notin Range(syncBuffer)
  /\ \E s \in Range(syncBuffer) : syncPc[s] \in {"noTarget", "failed"}

\* C26: a forMessage call for a message that is neither outgoing nor a story,
\* or that was not sent by our ACI, returns no receipt and leaves the buffer
\* and the receipts as they are, whatever receipts are buffered
C26_NotConsumedByOthersMessages ==
  [][ \A message \in AvailableMessages :
        (~SentByUs(message) /\ ForMessage(message)) =>
          /\ last'.op # "update"
          /\ last'.op = "forMessage" => last'.result = {} /\ last'.found = {}
          /\ buffer' = buffer
          /\ \A r \in buffer : receipts'[r] = receipts[r]
          /\ handedOut' = handedOut ]_vars

\* a forMessage call for a message we did not send has returned nothing while
\* a receipt for the sent timestamp of that message, for which onReceipt had
\* found no target, is buffered
C26_Witness ==
  /\ last.op = "forMessage"
  /\ last.found = {}
  /\ "returnedEarly" \in DOMAIN last
  /\ \E r \in buffer :
       /\ pc[r] = "noTarget"
       /\ receipts[r].messageSentAt = last.returnedEarly

\* C27: ViewOnceOpenSyncs.forMessage returns a sync only for a message with
\* the sync's timestamp and an identifier that both carry and that agrees: the
\* service id, or the source; a sync and a message that both lack a source and
\* have different service ids are not matched
C27_ForMessageMatchesAsOnSync ==
  [][ last'.op = "viewOnceForMessage" =>
        /\ SyncMatchesMessage(last'.attributes, last'.message)
        /\ onSyncMatches(last'.attributes, last'.message) ]_vars

====
